---- MODULE Spec2Model ----
(***************************************************************************)
(* The capture scheduler of timesnap (src/index.js): the async function    *)
(* exported by the module, as a sequential state machine.  Every awaited   *)
(* call is one step that either resolves or rejects; a rejection inside    *)
(* the try block runs the catch block (log(err)) and ends the run.         *)
(*                                                                         *)
(* Times are JavaScript numbers in the source.  They are modelled as exact *)
(* rationals <<n, d>> (d > 0, lowest terms), so that 1000 / fps and the    *)
(* subdivision (i * frameDuration) / framesForDuration are computed, not   *)
(* rounded to integers.  Floating-point rounding is not modelled.          *)
(* A configuration field that is absent or falsy in JavaScript is 0 (or    *)
(* FALSE) here: the source only ever tests these fields for truthiness.    *)
(***************************************************************************)
EXTENDS Integers, Sequences, FiniteSets, TLC

(* ---------------------------- bounds ----------------------------------- *)
\* Largest framesToCapture of a configuration that is explored.
MaxFrames == 5
\* Largest number of priming advances before the selector query must succeed.
MaxPriming == 2

(* ------------------------ program constants ---------------------------- *)
defaultDuration == 5
defaultFPS == 60
addAnimationGapThreshold == 100
addAnimationFrameTime == 20

(* ------------------------ exact rationals ------------------------------ *)
Abs(x) == IF x < 0 THEN -x ELSE x

RECURSIVE GCD(_, _)
GCD(a, b) == IF b = 0 THEN a ELSE GCD(b, a % b)

\* The rational n / d (d # 0) in lowest terms with a positive denominator.
Rat(n, d) ==
  LET s == IF d < 0 THEN -1 ELSE 1
      g == GCD(Abs(n), Abs(d))
  IN  <<(s * n) \div g, (s * d) \div g>>

Num(r) == r[1]
Den(r) == r[2]
OfInt(n) == <<n, 1>>
RAdd(a, b) == Rat(Num(a) * Den(b) + Num(b) * Den(a), Den(a) * Den(b))
RSub(a, b) == Rat(Num(a) * Den(b) - Num(b) * Den(a), Den(a) * Den(b))
RMul(a, b) == Rat(Num(a) * Num(b), Den(a) * Den(b))
RDiv(a, b) == Rat(Num(a) * Den(b), Den(a) * Num(b))
RLess(a, b) == Num(a) * Den(b) < Num(b) * Den(a)
RLeq(a, b) == Num(a) * Den(b) <= Num(b) * Den(a)
\* Math.ceil: \div rounds towards minus infinity, so ceil(x) = -floor(-x).
RCeil(r) == -((-Num(r)) \div Den(r))
Zero == OfInt(0)

(* -------------------------- configuration ------------------------------ *)
\* Custom frameNumToTime callbacks a caller may pass; "default" stands for no
\* callback (the source then installs its own, lines 83-87).
\*   zigzag: 0, 1000, 200, 1200, ...  (non-negative, not monotonic)
\*   late:   150, 550, 950, ...       (first capture later than the threshold)
\*   dip:    150, 0, 100, 200, ...    (first frame late, the others from 0 on)
FrameNumToTimeNames == {"default", "zigzag", "late", "dip"}

\* canvasCaptureMode values: absent, a non-string truthy value, and strings
\* given as token sequences ("immediate:#canvas" is <<"immediate", ":", "#canvas">>).
CanvasModes ==
  { [type |-> "undefined", chars |-> <<>>],
    [type |-> "boolean",   chars |-> <<>>],
    [type |-> "string",    chars |-> <<"#canvas">>],
    [type |-> "string",    chars |-> <<"immediate">>],
    [type |-> "string",    chars |-> <<"immediate", ":", "#canvas">>] }

\* The capturer object the strategy's factory returns (lib/capture-*.js, not in
\* this file): which of the optional methods it has.  It is fixed per run, so
\* it is drawn together with the configuration.
CapturerShapes ==
  { [beforeCapture |-> TRUE,  capture |-> TRUE,  afterCapture |-> TRUE],
    [beforeCapture |-> FALSE, capture |-> TRUE,  afterCapture |-> FALSE],
    [beforeCapture |-> TRUE,  capture |-> FALSE, afterCapture |-> TRUE] }

\* The timing part of a configuration (frames, duration, fps in the units of
\* the source; start in seconds as a rational; maximumAnimationFrameDuration
\* in ms; 0 = not given).
TimingFields ==
  [ frames : {0, 3, MaxFrames},
    duration : {0, 2},
    fps : {0, 1, 10},
    start : {Zero, Rat(1, 5)},
    frameNumToTime : FrameNumToTimeNames,
    maximumAnimationFrameDuration : {0, 400, 500},
    captureWhileSelectorExists : BOOLEAN ]

\* The hooks and the capture mode of a configuration.
HookFields ==
  [ preparePage : BOOLEAN,
    preparePageForScreenshot : BOOLEAN,
    viewport : BOOLEAN,
    canvasCaptureMode : CanvasModes,
    capturer : CapturerShapes ]

AllHooks ==
  [ preparePage |-> TRUE, preparePageForScreenshot |-> TRUE, viewport |-> TRUE,
    canvasCaptureMode |-> [type |-> "undefined", chars |-> <<>>],
    capturer |-> [beforeCapture |-> TRUE, capture |-> TRUE, afterCapture |-> TRUE] ]

Merge(t, h) == [ k \in (DOMAIN t) \cup (DOMAIN h) |-> IF k \in DOMAIN t THEN t[k] ELSE h[k] ]

(* --------------- lines 53, 61-87: resolution of the timing ------------- *)
\* delayMs = 1000 * (config.start || 0)
DelayMs(c) == RMul(OfInt(1000), c.start)

\* Mutant: with frames and duration given, frames / duration overrides an explicit fps.
ResolvedFpsDurationFirst(c) ==
  IF c.frames # 0
    THEN IF c.duration # 0 THEN Rat(c.frames, c.duration)
         ELSE IF c.fps # 0 THEN OfInt(c.fps)
         ELSE OfInt(defaultFPS)
    ELSE IF c.fps # 0 THEN OfInt(c.fps) ELSE OfInt(defaultFPS)

\* fps after lines 61-79 (a rational: frames / duration need not be whole).
ResolvedFps(c) ==
  IF c.frames # 0
    THEN IF c.fps # 0 THEN OfInt(c.fps)
         ELSE IF c.duration # 0 THEN Rat(c.frames, c.duration)
         ELSE OfInt(defaultFPS)
    ELSE IF c.fps # 0 THEN OfInt(c.fps) ELSE OfInt(defaultFPS)

\* framesToCapture after lines 61-79, as a rational.
ResolvedFrames(c) ==
  IF c.frames # 0
    THEN OfInt(c.frames)
    ELSE IF c.duration # 0
           THEN RMul(OfInt(c.duration), ResolvedFps(c))
           ELSE RMul(OfInt(defaultDuration), ResolvedFps(c))

\* frameDuration = 1000 / fps  (line 81)
FrameDuration(c) == RDiv(OfInt(1000), ResolvedFps(c))

\* The default frameNumToTime of lines 84-86.
DefaultFrameNumToTime(c, frameCount) ==
  RMul(OfInt(frameCount - 1), FrameDuration(c))

\* frameNumToTime(i, framesToCapture): the caller's callback, or the default.
FrameNumToTime(c, i, n) ==
  CASE c.frameNumToTime = "zigzag" ->
         OfInt(IF i % 2 = 1 THEN (i - 1) * 100 ELSE (i - 1) * 100 + 900)
    [] c.frameNumToTime = "late" -> OfInt(150 + (i - 1) * 400)
    [] c.frameNumToTime = "dip" -> OfInt(IF i = 1 THEN 150 ELSE (i - 2) * 100)
    [] OTHER -> DefaultFrameNumToTime(c, i)

\* Number of iterations of "for (let i = 1; i <= framesToCapture; i++)".
LoopCount(n) == IF RLess(n, OfInt(1)) THEN 0 ELSE Num(n) \div Den(n)

\* The configurations explored: every timing with all hooks present, and
\* every combination of hooks and capture mode with two representative timings.
BaseTimings ==
  { t \in TimingFields :
      /\ t.frames = 3 /\ t.duration = 0 /\ t.fps = 1 /\ t.start = Zero
      /\ t.frameNumToTime = "default"
      /\ t.maximumAnimationFrameDuration \in {0, 400} }

Configs ==
  { c \in { Merge(t, AllHooks) : t \in TimingFields }
            \cup { Merge(t, h) : t \in BaseTimings, h \in HookFields } :
      RLeq(ResolvedFrames(c), OfInt(MaxFrames)) }

(* --------------- lines 142-166: capture strategy selection ------------- *)
Truthy(mode) ==
  \/ mode.type = "boolean"
  \/ mode.type = "string" /\ mode.chars # <<>>

StartsWithImmediate(mode) ==
  mode.type = "string" /\ mode.chars # <<>> /\ Head(mode.chars) = "immediate"

\* Mutant: the regular expression is /^immediate/, the colon stays.
StripImmediateKeepColon(chars) == Tail(chars)

\* canvasCaptureMode.replace(/^immediate:?/, '')
StripImmediate(chars) ==
  LET rest == Tail(chars)
  IN  IF rest # <<>> /\ Head(rest) = ":" THEN Tail(rest) ELSE rest

SelectStrategy(mode) ==
  IF Truthy(mode)
    THEN IF StartsWithImmediate(mode) THEN "ImmediateCanvas" ELSE "DeferredCanvas"
    ELSE "Screenshot"

SelectTimeHandler(mode) ==
  IF Truthy(mode) /\ StartsWithImmediate(mode)
    THEN "immediateCanvasHandler" ELSE "overwriteTime"

SelectedCanvasMode(mode) ==
  IF Truthy(mode) /\ StartsWithImmediate(mode)
    THEN [type |-> "string", chars |-> StripImmediate(mode.chars)]
    ELSE mode

(* ------------------ lines 207-251: the timeline builder ---------------- *)
\* time of the Capture marker of frame i (line 210)
CaptureMarkerTime(c, bt, i) ==
  RAdd(RAdd(DelayMs(c), bt), FrameNumToTime(c, i, ResolvedFrames(c)))

\* entry i of captureTimes (line 214)
CaptureTime(c, i) ==
  RAdd(DelayMs(c), FrameNumToTime(c, i, ResolvedFrames(c)))

\* Mutant: the loop stops one frame early (i < framesToCapture).
CaptureMarkersOffByOne(c, bt) ==
  [ i \in 1..(LoopCount(ResolvedFrames(c)) - 1) |->
      [time |-> CaptureMarkerTime(c, bt, i), type |-> "Capture", frameCount |-> i] ]

\* Mutant: the frame index passed on is zero-based.
CaptureMarkersZeroBased(c, bt) ==
  [ i \in 1..LoopCount(ResolvedFrames(c)) |->
      [time |-> CaptureMarkerTime(c, bt, i), type |-> "Capture", frameCount |-> i - 1] ]

\* the markers pushed by the loop of lines 208-215, without their ids
CaptureMarkers(c, bt) ==
  [ i \in 1..LoopCount(ResolvedFrames(c)) |->
      [time |-> CaptureMarkerTime(c, bt, i), type |-> "Capture", frameCount |-> i] ]

CaptureTimes(c) ==
  [ i \in 1..LoopCount(ResolvedFrames(c)) |-> CaptureTime(c, i) ]

OnlyAnimate(t) == [time |-> t, type |-> "Only Animate", frameCount |-> 0]

\* Mutant: the threshold test is dropped, the early marker is always added.
EarlyMarkersAlways(ct) ==
  IF Len(ct) # 0
    THEN << OnlyAnimate(OfInt(addAnimationFrameTime)) >>
    ELSE << >>

\* lines 219-226: the early requestAnimationFrame marker
EarlyMarkers(ct) ==
  IF Len(ct) # 0 /\ RLess(OfInt(addAnimationGapThreshold), ct[1])
    THEN << OnlyAnimate(OfInt(addAnimationFrameTime)) >>
    ELSE << >>

\* lines 232-241: the markers of one gap lastMarkerTime -> time
SubdivideGap(lastMarkerTime, time, maxDuration) ==
  LET frameDuration == RSub(time, lastMarkerTime)
      framesForDuration == RCeil(RDiv(frameDuration, OfInt(maxDuration)))
  IN  [ i \in 1..(framesForDuration - 1) |->
          OnlyAnimate(RAdd(lastMarkerTime,
                           RDiv(RMul(OfInt(i), frameDuration), OfInt(framesForDuration)))) ]

\* lines 228-244: captureTimes.forEach, from entry k on
RECURSIVE SubdivisionsFrom(_, _, _, _)
SubdivisionsFrom(ct, k, lastMarkerTime, maxDuration) ==
  IF k > Len(ct) THEN << >>
  ELSE (IF maxDuration # 0 THEN SubdivideGap(lastMarkerTime, ct[k], maxDuration) ELSE << >>)
       \o SubdivisionsFrom(ct, k + 1, ct[k], maxDuration)

Subdivisions(ct, maxDuration) == SubdivisionsFrom(ct, 1, Zero, maxDuration)

\* addMarker (lines 130-131) applied to each element of new, in order
AddMarkers(ms, firstId, new) ==
  ms \o [ k \in 1..Len(new) |->
            [time |-> new[k].time, type |-> new[k].type,
             frameCount |-> new[k].frameCount, id |-> firstId + k - 1] ]

\* Mutant: the comparator returns b.time - a.time.
MarkerBeforeDescending(a, b) ==
  IF a.time # b.time THEN RLess(b.time, a.time) ELSE a.id < b.id

\* Mutant: the tie-break returns b.id - a.id.
MarkerBeforeTieReversed(a, b) ==
  IF a.time # b.time THEN RLess(a.time, b.time) ELSE b.id < a.id

\* the comparator of lines 246-251, as "a sorts before b"
MarkerBefore(a, b) ==
  IF a.time # b.time THEN RLess(a.time, b.time) ELSE a.id < b.id

\* Array.prototype.sort with that comparator
RECURSIVE SortMarkers(_)
SortMarkers(ms) ==
  IF ms = << >> THEN << >>
  ELSE LET k == CHOOSE k \in DOMAIN ms :
                  \A j \in DOMAIN ms : j = k \/ MarkerBefore(ms[k], ms[j])
           rest == [ j \in 1..(Len(ms) - 1) |-> IF j < k THEN ms[j] ELSE ms[j + 1] ]
       IN  << ms[k] >> \o SortMarkers(rest)

\* markers after lines 207-251
Timeline(c, bt) ==
  LET ct == CaptureTimes(c)
      m1 == AddMarkers(<< >>, 0, CaptureMarkers(c, bt))
      m2 == AddMarkers(m1, Len(m1), EarlyMarkers(ct))
      m3 == AddMarkers(m2, Len(m2), Subdivisions(ct, c.maximumAnimationFrameDuration))
  IN  SortMarkers(m3)

(* ------------------------------ state ---------------------------------- *)
VARIABLES
  cfg,               \* the configuration object passed to the function
  pc,                \* the await the function is suspended at
  browser,           \* "none", "open" (acquired) or "closed"
  strategy,          \* the capture strategy chosen at lines 143-166
  timeHandler,       \* the time handler chosen with it
  canvasCaptureMode, \* config.canvasCaptureMode (rewritten at line 149)
  capturer,          \* the capturer object: which methods it has
  browserTime,       \* line 195
  primingSteps,      \* iterations of the while loop of line 201 so far
  markers,           \* line 128
  markerId,          \* line 129
  captureTimes,      \* line 207
  markerIndex,       \* line 254
  calls              \* history: every call issued to the host, the hooks,
                     \* the time handler and the capturer, and log(err)

vars == << cfg, pc, browser, strategy, timeHandler, canvasCaptureMode, capturer,
           browserTime, primingSteps, markers, markerId, captureTimes,
           markerIndex, calls >>

\* One entry of the history: the source line of the call, the function called,
\* its time and frame arguments (Zero / 0 when it has none), whether the
\* promise resolved, and for page.$ whether an element was found.
Event(line, op, time, frame) ==
  [line |-> line, op |-> op, time |-> time, frame |-> frame, ok |-> TRUE, found |-> FALSE]

Rejected(e) == [e EXCEPT !.ok = FALSE]
Found(e, f) == [e EXCEPT !.found = f]
LogError == Event(296, "log", Zero, 0)

\* Mutant: the loop increment is missing.
GotoNoIncrement(next) ==
  IF next = "next"
    THEN /\ pc' = "marker"
         /\ UNCHANGED markerIndex
    ELSE /\ pc' = next
         /\ UNCHANGED markerIndex

\* Continue at next; "next" is the loop increment of line 254.
Goto(next) ==
  IF next = "next"
    THEN /\ markerIndex' = markerIndex + 1
         /\ pc' = IF markerIndex + 1 < Len(markers) THEN "marker" ELSE "afterLoop"
    ELSE /\ pc' = next
         /\ UNCHANGED markerIndex

\* An awaited call that resolves: execution continues at next.
Resolve(e, next) ==
  /\ calls' = Append(calls, e)
  /\ Goto(next)

\* An awaited call that rejects inside the try block: the catch block of
\* lines 295-297 logs the error, and the function returns.
Throw(e) ==
  /\ calls' = calls \o << Rejected(e), LogError >>
  /\ pc' = "failed"
  /\ UNCHANGED markerIndex

\* await of a call that may resolve or reject
Await(e, next) == Resolve(e, next) \/ Throw(e)

Init ==
  /\ cfg \in Configs
  /\ pc = "getBrowser"
  /\ browser = "none"
  /\ strategy = "none"
  /\ timeHandler = "none"
  /\ canvasCaptureMode = cfg.canvasCaptureMode
  /\ capturer = [beforeCapture |-> FALSE, capture |-> FALSE, afterCapture |-> FALSE]
  /\ browserTime = Zero
  /\ primingSteps = 0
  /\ markers = << >>
  /\ markerId = 0
  /\ captureTimes = << >>
  /\ markerIndex = 0
  /\ calls = << >>

(* ------------------------- control flow -------------------------------- *)
\* lines 167-176
AfterNewPage == IF cfg.viewport THEN "setViewport" ELSE "overwriteRandom"

\* Mutant: the navigation is started before the media time handler is installed.
InitSequenceGotoEarly ==
  << "overwriteRandom", "overwriteTime", "initializePageUtils",
     "goto", "initializeMediaTimeHandler" >>

\* lines 176-181: the installations, then the navigation
InitSequence ==
  << "overwriteRandom", "overwriteTime", "initializePageUtils",
     "initializeMediaTimeHandler", "goto" >>

\* lines 183-188
AfterInit == IF cfg.preparePage THEN "preparePage" ELSE "startWait"

\* the statement after step of the initialization sequence
AfterInitStep(step) ==
  LET k == CHOOSE k \in DOMAIN InitSequence : InitSequence[k] = step
  IN  IF k < Len(InitSequence) THEN InitSequence[k + 1] ELSE AfterInit

\* lines 197-198: the selector is only queried when it is configured
BeforePriming == IF cfg.captureWhileSelectorExists THEN "primeIf" ELSE "build"

\* Mutant: beforeCapture is never called.
AfterStartWaitSkipsBeforeCapture == BeforePriming

\* lines 191-193
AfterStartWait == IF capturer.beforeCapture THEN "beforeCapture" ELSE BeforePriming

\* Mutant: the negation is dropped, priming runs while the element is found.
PrimingContinuesWhileFound(found) == found

\* lines 197-201: the loop is entered, and continues, on !(await page.$(...))
PrimingContinues(found) == ~found

\* Mutant: the break is missing.
AfterCheckNoBreak(found) ==
  IF cfg.preparePageForScreenshot THEN "preparePageForScreenshot"
  ELSE IF capturer.capture THEN "capture"
  ELSE "next"

\* lines 261-266: break when the selector is configured and not found
AfterCheck(found) ==
  IF ~found THEN "afterLoop"
  ELSE IF cfg.preparePageForScreenshot THEN "preparePageForScreenshot"
  ELSE IF capturer.capture THEN "capture"
  ELSE "next"

\* Mutant: the selector check is skipped.
AfterAdvanceForCaptureNoCheck == AfterCheck(TRUE)

\* lines 257-268 when the selector is not configured
AfterAdvanceForCapture ==
  IF cfg.captureWhileSelectorExists THEN "check" ELSE AfterCheck(TRUE)

\* lines 276-278
AfterPrepareForScreenshot == IF capturer.capture THEN "capture" ELSE "next"

(* ------------------------------ actions -------------------------------- *)
\* line 125: await getBrowser(config, launchOptions)
GetBrowser ==
  /\ pc = "getBrowser"
  /\ \/ /\ Resolve(Event(125, "getBrowser", Zero, 0), "newPage")
        /\ browser' = "open"
     \/ /\ Throw(Event(125, "getBrowser", Zero, 0))
        /\ UNCHANGED browser
  /\ UNCHANGED << cfg, strategy, timeHandler, canvasCaptureMode, capturer, browserTime,
                  primingSteps, markers, markerId, captureTimes >>

\* lines 126-166: await browser.newPage(), then the synchronous set-up of the
\* markers and the choice of the capture strategy
NewPage ==
  /\ pc = "newPage"
  /\ \/ /\ Resolve(Event(126, "newPage", Zero, 0), AfterNewPage)
        /\ markers' = << >>
        /\ markerId' = 0
        /\ strategy' = SelectStrategy(cfg.canvasCaptureMode)
        /\ timeHandler' = SelectTimeHandler(cfg.canvasCaptureMode)
        /\ canvasCaptureMode' = SelectedCanvasMode(cfg.canvasCaptureMode)
        /\ capturer' = cfg.capturer
     \/ /\ Throw(Event(126, "newPage", Zero, 0))
        /\ UNCHANGED << markers, markerId, strategy, timeHandler, canvasCaptureMode, capturer >>
  /\ UNCHANGED << cfg, browser, browserTime, primingSteps, captureTimes >>

\* what every step between the strategy selection and the timeline leaves alone
Setup == << cfg, browser, strategy, timeHandler, canvasCaptureMode, capturer,
            browserTime, primingSteps, markers, markerId, captureTimes >>

\* line 174: await page.setViewport(config.viewport)
SetViewport ==
  /\ pc = "setViewport"
  /\ Await(Event(174, "setViewport", Zero, 0), "overwriteRandom")
  /\ UNCHANGED Setup

\* line 176: await overwriteRandom(page, unrandom, log)
OverwriteRandom ==
  /\ pc = "overwriteRandom"
  /\ Await(Event(176, "overwriteRandom", Zero, 0), AfterInitStep("overwriteRandom"))
  /\ UNCHANGED Setup

\* line 177: await timeHandler.overwriteTime(page)
OverwriteTime ==
  /\ pc = "overwriteTime"
  /\ Await(Event(177, "overwriteTime", Zero, 0), AfterInitStep("overwriteTime"))
  /\ UNCHANGED Setup

\* line 178: await initializePageUtils(page)
InitializePageUtils ==
  /\ pc = "initializePageUtils"
  /\ Await(Event(178, "initializePageUtils", Zero, 0), AfterInitStep("initializePageUtils"))
  /\ UNCHANGED Setup

\* line 179: await initializeMediaTimeHandler(page)
InitializeMediaTimeHandler ==
  /\ pc = "initializeMediaTimeHandler"
  /\ Await(Event(179, "initializeMediaTimeHandler", Zero, 0),
           AfterInitStep("initializeMediaTimeHandler"))
  /\ UNCHANGED Setup

\* line 181: await page.goto(url, { waitUntil: 'networkidle0' })
GotoUrl ==
  /\ pc = "goto"
  /\ Await(Event(181, "goto", Zero, 0), AfterInitStep("goto"))
  /\ UNCHANGED Setup

\* line 185: await config.preparePage(page)
PreparePage ==
  /\ pc = "preparePage"
  /\ Await(Event(185, "preparePage", Zero, 0), "startWait")
  /\ UNCHANGED Setup

\* lines 188-190: the setTimeout promise, which always resolves
StartWait ==
  /\ pc = "startWait"
  /\ Resolve(Event(188, "setTimeout", Zero, 0), AfterStartWait)
  /\ UNCHANGED Setup

\* line 192: await capturer.beforeCapture(config)
BeforeCapture ==
  /\ pc = "beforeCapture"
  /\ Await(Event(192, "beforeCapture", Zero, 0), BeforePriming)
  /\ UNCHANGED Setup

\* lines 197-200: the first query of the selector
PrimeIf ==
  /\ pc = "primeIf"
  /\ \/ \E found \in BOOLEAN :
          Resolve(Found(Event(199, "$", Zero, 0), found),
                  IF PrimingContinues(found) THEN "primeWhile" ELSE "build")
     \/ Throw(Event(199, "$", Zero, 0))
  /\ UNCHANGED Setup

\* line 201: the loop condition.  After MaxPriming advances the element is found.
PrimeWhile ==
  /\ pc = "primeWhile"
  /\ \/ \E found \in BOOLEAN :
          /\ primingSteps >= MaxPriming => found
          /\ Resolve(Found(Event(201, "$", Zero, 0), found),
                     IF PrimingContinues(found) THEN "primeAdvance" ELSE "build")
     \/ Throw(Event(201, "$", Zero, 0))
  /\ UNCHANGED Setup

\* lines 202-203: browserTime += frameDuration; goToTimeAndAnimate
PrimeAdvance ==
  /\ pc = "primeAdvance"
  /\ browserTime' = RAdd(browserTime, FrameDuration(cfg))
  /\ primingSteps' = primingSteps + 1
  /\ Await(Event(203, "goToTimeAndAnimate", browserTime', 0), "primeWhile")
  /\ UNCHANGED << cfg, browser, strategy, timeHandler, canvasCaptureMode, capturer,
                  markers, markerId, captureTimes >>

\* lines 207-254: build and sort the timeline, enter the marker loop
BuildTimeline ==
  /\ pc = "build"
  /\ markers' = Timeline(cfg, browserTime)
  /\ markerId' = Len(markers')
  /\ captureTimes' = CaptureTimes(cfg)
  /\ markerIndex' = 0
  /\ pc' = IF 0 < Len(markers') THEN "marker" ELSE "afterLoop"
  /\ UNCHANGED << cfg, browser, strategy, timeHandler, canvasCaptureMode, capturer,
                  browserTime, primingSteps, calls >>

\* const marker = markers[markerIndex]  (line 255)
Marker == markers[markerIndex + 1]

\* lines 256-260: await timeHandler.goToTimeAndAnimateForCapture
AdvanceForCapture ==
  /\ pc = "marker"
  /\ Marker.type = "Capture"
  /\ Await(Event(257, "goToTimeAndAnimateForCapture", Marker.time, Marker.frameCount),
           AfterAdvanceForCapture)
  /\ UNCHANGED Setup

\* Mutant: the 'else' of line 285 is missing its own branch end, an 'Only Animate'
\* marker falls through to the capture.
AnimateOnlyFallsThrough ==
  /\ pc = "marker"
  /\ Marker.type = "Only Animate"
  /\ Await(Event(286, "goToTimeAndAnimate", Marker.time, 0),
           IF capturer.capture THEN "capture" ELSE "next")
  /\ UNCHANGED Setup

\* lines 285-286: await timeHandler.goToTimeAndAnimate
AnimateOnly ==
  /\ pc = "marker"
  /\ Marker.type = "Only Animate"
  /\ Await(Event(286, "goToTimeAndAnimate", Marker.time, 0), "next")
  /\ UNCHANGED Setup

\* lines 261-266: the selector check before a capture
CheckSelector ==
  /\ pc = "check"
  /\ \/ \E found \in BOOLEAN :
          Resolve(Found(Event(263, "$", Zero, Marker.frameCount), found), AfterCheck(found))
     \/ Throw(Event(263, "$", Zero, Marker.frameCount))
  /\ UNCHANGED Setup

\* Mutant: a rejection of the hook is caught locally, logged, and the capture goes on.
PreparePageForScreenshotSwallowsError ==
  /\ pc = "preparePageForScreenshot"
  /\ \/ Resolve(Event(270, "preparePageForScreenshot", Zero, Marker.frameCount),
                AfterPrepareForScreenshot)
     \/ /\ calls' = calls \o
             << Rejected(Event(270, "preparePageForScreenshot", Zero, Marker.frameCount)),
                LogError >>
        /\ Goto(AfterPrepareForScreenshot)
  /\ UNCHANGED Setup

\* lines 268-276: await config.preparePageForScreenshot(page, frameCount, framesToCapture)
PreparePageForScreenshot ==
  /\ pc = "preparePageForScreenshot"
  /\ Await(Event(270, "preparePageForScreenshot", Zero, Marker.frameCount),
           AfterPrepareForScreenshot)
  /\ UNCHANGED Setup

\* Mutant: the capture call has its own try/catch, which logs and carries on.
CaptureSwallowsError ==
  /\ pc = "capture"
  /\ \/ Resolve(Event(279, "capture", Zero, Marker.frameCount), "next")
     \/ /\ calls' = calls \o << Rejected(Event(279, "capture", Zero, Marker.frameCount)),
                                LogError >>
        /\ Goto("next")
  /\ UNCHANGED Setup

\* lines 278-284: await capturer.capture(config, frameCount, framesToCapture)
Capture ==
  /\ pc = "capture"
  /\ Await(Event(279, "capture", Zero, Marker.frameCount), "next")
  /\ UNCHANGED Setup

\* lines 289-290: the loop is left (exhausted or by break); log of the elapsed time
LeaveLoop ==
  /\ pc = "afterLoop"
  /\ pc' = IF capturer.afterCapture THEN "afterCapture" ELSE "close"
  /\ UNCHANGED << cfg, browser, strategy, timeHandler, canvasCaptureMode, capturer,
                  browserTime, primingSteps, markers, markerId, captureTimes,
                  markerIndex, calls >>

\* line 291: await capturer.afterCapture()
AfterCapture ==
  /\ pc = "afterCapture"
  /\ Await(Event(291, "afterCapture", Zero, 0), "close")
  /\ UNCHANGED Setup

\* line 294: await browser.close()
CloseBrowser ==
  /\ pc = "close"
  /\ \/ /\ Resolve(Event(294, "close", Zero, 0), "done")
        /\ browser' = "closed"
     \/ /\ Throw(Event(294, "close", Zero, 0))
        /\ UNCHANGED browser
  /\ UNCHANGED << cfg, strategy, timeHandler, canvasCaptureMode, capturer, browserTime,
                  primingSteps, markers, markerId, captureTimes >>

Next ==
  \/ GetBrowser \/ NewPage \/ SetViewport
  \/ OverwriteRandom \/ OverwriteTime \/ InitializePageUtils
  \/ InitializeMediaTimeHandler \/ GotoUrl
  \/ PreparePage \/ StartWait \/ BeforeCapture
  \/ PrimeIf \/ PrimeWhile \/ PrimeAdvance
  \/ BuildTimeline
  \/ AdvanceForCapture \/ AnimateOnly \/ CheckSelector
  \/ PreparePageForScreenshot \/ Capture
  \/ LeaveLoop \/ AfterCapture \/ CloseBrowser

Spec == Init /\ [][Next]_vars

(* ----------------------- reading the history --------------------------- *)
IsAdvance(e) == e.op \in {"goToTimeAndAnimate", "goToTimeAndAnimateForCapture"}
IsPrimingAdvance(e) == e.line = 203
IsRunningAdvance(e) == e.line \in {257, 286}
IsBreak(e) == e.line = 263 /\ e.ok /\ ~e.found

\* every advance issued to the time handler so far, in order
Advances == SelectSeq(calls, IsAdvance)
PrimingAdvances == SelectSeq(calls, IsPrimingAdvance)
RunningAdvances == SelectSeq(calls, IsRunningAdvance)
\* the frame indices passed to capturer.capture so far, in order
CaptureCalls == SelectSeq(calls, LAMBDA e : e.op = "capture")
CapturedFrames == [ k \in DOMAIN CaptureCalls |-> CaptureCalls[k].frame ]

Terminal == pc \in {"done", "failed"}
\* the timeline has been built (every configuration has at least one frame)
Built == markers # << >>
NoRejection == \A k \in DOMAIN calls : calls[k].ok
BrokeOut == \E k \in DOMAIN calls : IsBreak(calls[k])
FramesN == LoopCount(ResolvedFrames(cfg))

(* ------------------------------ C1 ------------------------------------- *)
\* C1: the target times of all advances issued in one run (priming, then the
\* markers) are non-decreasing.
C1_AdvancesNonDecreasing ==
  \A i, j \in DOMAIN Advances :
    i < j => RLeq(Advances[i].time, Advances[j].time)

(* ------------------------------ C2 ------------------------------------- *)
\* the marker created with the given id
MarkersWithId(id) == { k \in DOMAIN markers : markers[k].id = id }
CaptureMarkerIndices == { k \in DOMAIN markers : markers[k].type = "Capture" }

\* the timeline holds exactly N Capture markers, the i-th created one carrying
\* frame index i and the time expected(i)
CaptureMarkersAre(expected(_)) ==
  /\ Cardinality(CaptureMarkerIndices) = FramesN
  /\ \A i \in 1..FramesN :
       \E k \in MarkersWithId(i - 1) :
         /\ markers[k].type = "Capture"
         /\ markers[k].frameCount = i
         /\ markers[k].time = expected(i)

\* C2 as stated: exactly N Capture markers with frame indices 1..N in creation
\* order, frame i at delay + frameNumToTime(i, N), whatever priming did.
C2_CaptureAtDelayPlusFrameTime ==
  Built =>
    CaptureMarkersAre(LAMBDA i :
      RAdd(DelayMs(cfg), FrameNumToTime(cfg, i, ResolvedFrames(cfg))))

\* C2 amended: exactly N Capture markers with frame indices 1..N in creation
\* order, frame i at delay + browserTime + frameNumToTime(i, N), where
\* browserTime is the time reached by priming (0 when priming did not advance).
C2_CaptureAtDelayPlusPrimingPlusFrameTime ==
  Built =>
    CaptureMarkersAre(LAMBDA i :
      RAdd(RAdd(DelayMs(cfg), FrameNumToTime(cfg, i, ResolvedFrames(cfg))),
           RMul(OfInt(primingSteps), FrameDuration(cfg))))

\* a finished run whose priming advanced the clock, with a start delay
C2_Witness ==
  /\ pc = "done"
  /\ primingSteps = 2
  /\ cfg.start # Zero
  /\ FramesN = MaxFrames

(* ------------------------------ C3 ------------------------------------- *)
\* Capture markers at positions a < b of the sorted timeline, none in between
ConsecutiveCaptures(a, b) ==
  /\ a \in CaptureMarkerIndices /\ b \in CaptureMarkerIndices /\ a < b
  /\ \A k \in CaptureMarkerIndices : ~(a < k /\ k < b)

OnlyAnimateBetween(t1, t2) ==
  { k \in DOMAIN markers :
      /\ markers[k].type = "Only Animate"
      /\ RLess(t1, markers[k].time) /\ RLess(markers[k].time, t2) }

\* C3: with maximumAnimationFrameDuration = D, between two consecutive Capture
\* markers at t and t + Delta, Delta > D, there are exactly ceil(Delta / D) - 1
\* 'Only Animate' markers, at t + j * Delta / ceil(Delta / D).
C3_SubdivisionBetweenCaptures ==
  (Built /\ cfg.maximumAnimationFrameDuration # 0) =>
    \A a, b \in DOMAIN markers :
      LET t == markers[a].time
          delta == RSub(markers[b].time, t)
          D == OfInt(cfg.maximumAnimationFrameDuration)
          n == RCeil(RDiv(delta, D))
          between == OnlyAnimateBetween(t, markers[b].time)
      IN  (ConsecutiveCaptures(a, b) /\ RLess(D, delta)) =>
            /\ Cardinality(between) = n - 1
            /\ \A j \in 1..(n - 1) :
                 \E k \in between :
                   markers[k].time = RAdd(t, RDiv(RMul(OfInt(j), delta), OfInt(n)))

(* ------------------------------ C4 ------------------------------------- *)
\* C4: with maximumAnimationFrameDuration = D > 0, every advance issued while
\* executing the timeline moves at most D beyond the previously issued advance
\* (0 when there is none).
C4_RunningAdvanceAtMostD ==
  cfg.maximumAnimationFrameDuration # 0 =>
    \A j \in DOMAIN Advances :
      IsRunningAdvance(Advances[j]) =>
        RLeq(RSub(Advances[j].time, IF j = 1 THEN Zero ELSE Advances[j - 1].time),
             OfInt(cfg.maximumAnimationFrameDuration))

(* ------------------------------ C5 ------------------------------------- *)
\* C5: when the selector check made for a Capture marker finds the element
\* absent, that marker gets no preparePageForScreenshot and no capture, and no
\* later marker is executed: the check follows that marker's advance, and
\* nothing but afterCapture, browser.close and log is called after it.
C5_EarlyExit ==
  \A k \in DOMAIN calls :
    IsBreak(calls[k]) =>
      /\ k > 1 /\ calls[k - 1].line = 257 /\ calls[k - 1].frame = calls[k].frame
      /\ Marker.type = "Capture" /\ Marker.frameCount = calls[k].frame
      /\ Len(RunningAdvances) = markerIndex + 1
      /\ \A j \in DOMAIN calls :
           /\ calls[j].op \in {"capture", "preparePageForScreenshot"}
                => calls[j].frame # calls[k].frame
           /\ j > k => calls[j].op \in {"afterCapture", "close", "log"}

\* a finished run that broke out with a Capture marker and an 'Only Animate'
\* marker still ahead in the timeline
C5_Witness ==
  /\ pc = "done"
  /\ BrokeOut
  /\ \E a, b \in DOMAIN markers :
       /\ a > markerIndex + 1 /\ markers[a].type = "Only Animate"
       /\ b > markerIndex + 1 /\ markers[b].type = "Capture"

(* ------------------------------ C6 ------------------------------------- *)
\* the number of selector checks of the marker loop that found the element
ChecksFound ==
  Len(SelectSeq(calls, LAMBDA e : e.line = 263 /\ e.ok /\ e.found))

\* C6: default frame times, capturer.capture present, nothing rejected: when
\* the element is found at the first k checks and missing at check k + 1,
\* capture is called exactly k times, for frames 1..k, and the run ends
\* normally (afterCapture if present, then browser.close, no error logged).
C6_CapturesUntilSelectorGone ==
  ( /\ cfg.captureWhileSelectorExists /\ cfg.frameNumToTime = "default"
    /\ capturer.capture /\ BrokeOut /\ NoRejection ) =>
      /\ CapturedFrames = [ i \in 1..ChecksFound |-> i ]
      /\ ChecksFound < FramesN
      /\ Terminal =>
           /\ pc = "done" /\ browser = "closed"
           /\ calls[Len(calls)].op = "close"
           /\ capturer.afterCapture => calls[Len(calls) - 1].op = "afterCapture"
           /\ \A j \in DOMAIN calls : calls[j].op # "log"

\* a finished run with two captures before the element disappeared
C6_Witness ==
  /\ pc = "done" /\ BrokeOut /\ NoRejection
  /\ cfg.frameNumToTime = "default" /\ capturer.capture
  /\ CapturedFrames = << 1, 2 >>
  /\ FramesN = MaxFrames

(* ------------------------------ C7 ------------------------------------- *)
IsPrimingQuery(e) == e.line \in {199, 201}

\* C7 as stated: priming advances for as long as the element is present, so
\* every priming advance directly follows a query that found the element.
C7_PrimesWhilePresent ==
  \A k \in DOMAIN calls :
    IsPrimingAdvance(calls[k]) =>
      /\ k > 1 /\ IsPrimingQuery(calls[k - 1]) /\ calls[k - 1].found

\* C7 amended: after the startDelay wait, and only when the selector is
\* configured, priming advances in steps of 1000 / fps for as long as the
\* element is absent, and stops as soon as a query finds it; if the element is
\* present at the first query, no priming advance is issued.
C7_PrimesWhileAbsent ==
  /\ \A k \in DOMAIN calls :
       /\ (IsPrimingQuery(calls[k]) \/ IsPrimingAdvance(calls[k])) =>
            /\ cfg.captureWhileSelectorExists
            /\ \E j \in 1..(k - 1) : calls[j].op = "setTimeout"
       /\ IsPrimingAdvance(calls[k]) =>
            /\ k > 1 /\ calls[k - 1].line = 201
            /\ calls[k - 1].ok /\ ~calls[k - 1].found
       /\ (IsPrimingQuery(calls[k]) /\ calls[k].ok /\ calls[k].found) =>
            \A j \in DOMAIN calls :
              j > k => ~(IsPrimingQuery(calls[j]) \/ IsPrimingAdvance(calls[j]))
  /\ \A j \in DOMAIN PrimingAdvances :
       PrimingAdvances[j].time = RMul(OfInt(j), RDiv(OfInt(1000), ResolvedFps(cfg)))

\* priming advanced twice and then stopped because the element was found
C7_Witness ==
  /\ pc = "build"
  /\ Len(PrimingAdvances) = 2
  /\ calls[Len(calls)].line = 201 /\ calls[Len(calls)].found

(* ------------------------------ C8 ------------------------------------- *)
CaptureRejected(e) == e.line = 279 /\ ~e.ok

\* C8 as stated: after a rejected capture every later marker is still
\* executed, so a run that ended without breaking out advanced to every marker.
C8_CaptureFailureContinues ==
  ( Terminal /\ ~BrokeOut /\ \E k \in DOMAIN calls : CaptureRejected(calls[k]) ) =>
      Len(RunningAdvances) = Len(markers)

\* C8 amended: a rejected capture aborts the remaining timeline: the error is
\* logged by the catch block, the capture is not retried, and nothing else is
\* called (no later marker is executed).
C8_CaptureFailureAborts ==
  \A k \in DOMAIN calls :
    CaptureRejected(calls[k]) =>
      /\ pc = "failed"
      /\ Len(calls) = k + 1 /\ calls[k + 1] = LogError
      /\ Len(RunningAdvances) = markerIndex + 1
      /\ Cardinality({ j \in DOMAIN calls :
                         calls[j].op = "capture" /\ calls[j].frame = calls[k].frame }) = 1

\* the capture of a marker that is not the last one has been rejected
C8_Witness ==
  /\ Len(calls) > 1 /\ CaptureRejected(calls[Len(calls) - 1])
  /\ markerIndex + 1 < Len(markers)

(* ------------------------------ C9 ------------------------------------- *)
\* C9: a run that fails after the browser was acquired has called
\* browser.close by the time it ends.
C9_HostReleasedOnFailure ==
  (pc = "failed" /\ browser # "none") =>
    \E k \in DOMAIN calls : calls[k].op = "close"

(* ------------------------------ C10 ------------------------------------ *)
InstallOrder ==
  << "overwriteRandom", "overwriteTime", "initializePageUtils",
     "initializeMediaTimeHandler" >>
InstallOps == { InstallOrder[k] : k \in DOMAIN InstallOrder }
Installs == SelectSeq(calls, LAMBDA e : e.op \in InstallOps \cup {"goto"})

\* C10: page.goto is issued only after the randomness override, the clock
\* override, the page utilities and the media time handler were installed
\* successfully, in that order; if an installation fails there is no
\* navigation, no advance and no capture in that run.
C10_InstallBeforeNavigation ==
  /\ \A k \in DOMAIN Installs :
       /\ k <= Len(InstallOrder) + 1
       /\ Installs[k].op = (InstallOrder \o << "goto" >>)[k]
       /\ \A j \in 1..(k - 1) : Installs[j].ok
  /\ (\E k \in DOMAIN calls : calls[k].op \in InstallOps /\ ~calls[k].ok) =>
       \A j \in DOMAIN calls :
         ~IsAdvance(calls[j]) /\ calls[j].op \notin {"goto", "capture"}
  /\ \A k \in DOMAIN calls :
       (IsAdvance(calls[k]) \/ calls[k].op = "capture") =>
         \E j \in 1..(k - 1) : calls[j].op = "goto" /\ calls[j].ok

\* the last installation failed: the run ended without navigating
C10_Witness ==
  /\ pc = "failed"
  /\ \E k \in DOMAIN calls : calls[k].op = "initializeMediaTimeHandler" /\ ~calls[k].ok

(* ------------------------------ C11 ------------------------------------ *)
\* a precedes b in the (time, id) order
LowerOrdered(a, b) ==
  \/ RLess(a.time, b.time)
  \/ a.time = b.time /\ a.id < b.id

\* C11: the markers are executed in ascending (time, id) order: the order is
\* total (ids are unique), the k-th advance of the marker loop is the advance
\* of the k-th marker of that order, so that a marker is executed before
\* another one exactly when it is lower-ordered, and only a suffix of the
\* order can be left unexecuted.
C11_ExecutedInTimeIdOrder ==
  /\ \A a, b \in DOMAIN markers :
       /\ a # b => markers[a].id # markers[b].id
       /\ a < b <=> LowerOrdered(markers[a], markers[b])
  /\ Len(RunningAdvances) <= Len(markers)
  /\ \A k \in DOMAIN RunningAdvances :
       /\ RunningAdvances[k].time = markers[k].time
       /\ RunningAdvances[k].frame = markers[k].frameCount
       /\ RunningAdvances[k].line = IF markers[k].type = "Capture" THEN 257 ELSE 286

\* a finished run that executed two markers of equal time, in id order, and an
\* 'Only Animate' marker created after a Capture marker it precedes
C11_Witness ==
  /\ pc = "done"
  /\ Len(RunningAdvances) = Len(markers)
  /\ \E a, b \in DOMAIN markers :
       a < b /\ markers[a].time = markers[b].time
  /\ \E a, b \in DOMAIN markers :
       a < b /\ markers[a].id > markers[b].id

(* ------------------------------ C12 ------------------------------------ *)
\* fps and frame count as the claim states them
StatedFps ==
  IF cfg.frames # 0
    THEN IF cfg.fps # 0 THEN OfInt(cfg.fps)
         ELSE IF cfg.duration # 0 THEN Rat(cfg.frames, cfg.duration)
         ELSE OfInt(60)
    ELSE IF cfg.fps # 0 THEN OfInt(cfg.fps) ELSE OfInt(60)

StatedFrames ==
  IF cfg.frames # 0 THEN OfInt(cfg.frames)
  ELSE IF cfg.duration # 0 THEN RMul(OfInt(cfg.duration), StatedFps)
  ELSE RMul(OfInt(5), StatedFps)

CaptureMarkerTimes ==
  LET cm == SelectSeq(markers, LAMBDA m : m.type = "Capture")
  IN  [ k \in DOMAIN cm |-> cm[k].time ]

\* C12: the built timeline has as many capture times and Capture markers as
\* the stated frame count, with the default mapping frame i is captured at
\* 1000 * start + (i - 1) * 1000 / fps for the stated fps, and the two example
\* configurations give [0, 100, 200] without 'Only Animate' marker and [0, 1000].
C12_FramesAndFpsResolution ==
  Built =>
    /\ OfInt(Len(captureTimes)) = StatedFrames
    /\ OfInt(Cardinality(CaptureMarkerIndices)) = StatedFrames
    /\ cfg.frameNumToTime = "default" =>
         \A i \in DOMAIN captureTimes :
           captureTimes[i] =
             RAdd(RMul(OfInt(1000), cfg.start),
                  RMul(OfInt(i - 1), RDiv(OfInt(1000), StatedFps)))
    /\ ( /\ cfg.frames = 3 /\ cfg.fps = 10 /\ cfg.start = Zero
         /\ cfg.frameNumToTime = "default" ) =>
           /\ captureTimes = << OfInt(0), OfInt(100), OfInt(200) >>
           /\ primingSteps = 0 => CaptureMarkerTimes = captureTimes
           /\ \A k \in DOMAIN markers : markers[k].type # "Only Animate"
    /\ ( /\ cfg.frames = 0 /\ cfg.duration = 2 /\ cfg.fps = 1 /\ cfg.start = Zero
         /\ cfg.frameNumToTime = "default" ) =>
           /\ captureTimes = << OfInt(0), OfInt(1000) >>
           /\ primingSteps = 0 => CaptureMarkerTimes = captureTimes

\* a finished run of the second example (duration = 2, fps = 1, no frames)
C12_Witness ==
  /\ pc = "done"
  /\ cfg.frames = 0 /\ cfg.duration = 2 /\ cfg.fps = 1 /\ cfg.start = Zero
  /\ cfg.frameNumToTime = "default"
  /\ CaptureMarkerTimes = << OfInt(0), OfInt(1000) >>

(* ------------------------------ C13 ------------------------------------ *)
\* strategy and target selector as the claim states them
StatedStrategy ==
  LET m == cfg.canvasCaptureMode
  IN  IF m.type = "string" /\ Len(m.chars) > 0 /\ m.chars[1] = "immediate"
        THEN "ImmediateCanvas"
      ELSE IF m.type = "boolean" \/ (m.type = "string" /\ Len(m.chars) > 0)
        THEN "DeferredCanvas"
      ELSE "Screenshot"

StatedSelector ==
  LET ch == cfg.canvasCaptureMode.chars
  IN  IF Len(ch) >= 2 /\ ch[2] = ":" THEN SubSeq(ch, 3, Len(ch)) ELSE SubSeq(ch, 2, Len(ch))

Selected == strategy # "none"

StrategyAsStated ==
  /\ \A k \in DOMAIN calls :
       (calls[k].line > 126 /\ calls[k].op # "log") => Selected
  /\ Selected =>
       /\ strategy = StatedStrategy
       /\ strategy = "ImmediateCanvas" =>
            /\ canvasCaptureMode.chars = StatedSelector
            /\ timeHandler = "immediateCanvasHandler"
       /\ strategy # "ImmediateCanvas" =>
            /\ canvasCaptureMode = cfg.canvasCaptureMode
            /\ timeHandler = "overwriteTime"
       /\ capturer = cfg.capturer

\* C13: one strategy is selected, before any page work after the page is
\* created, as the claim states it from canvasCaptureMode, and the strategy,
\* the time handler and the capturer never change afterwards.
C13_StrategySelectedOnce ==
  /\ [] StrategyAsStated
  /\ [][ Selected =>
           /\ strategy' = strategy
           /\ timeHandler' = timeHandler
           /\ capturer' = capturer
           /\ canvasCaptureMode' = canvasCaptureMode ]_vars

\* a finished run with 'immediate:#canvas'
C13_Witness ==
  /\ pc = "done"
  /\ cfg.canvasCaptureMode.chars = << "immediate", ":", "#canvas" >>
  /\ strategy = "ImmediateCanvas"
  /\ canvasCaptureMode.chars = << "#canvas" >>
  /\ \E k \in DOMAIN calls : calls[k].op = "capture"

(* ------------------------------ C14 ------------------------------------ *)
HookRejected(e) == e.op \in {"preparePage", "preparePageForScreenshot"} /\ ~e.ok

\* C14: when preparePage or preparePageForScreenshot rejects, the run is
\* aborted: the error is logged by the top-level handler and nothing else is
\* called afterwards.
C14_HookRejectionAborts ==
  \A k \in DOMAIN calls :
    HookRejected(calls[k]) =>
      /\ pc = "failed"
      /\ Len(calls) = k + 1
      /\ calls[k + 1] = LogError

\* preparePageForScreenshot rejected with markers still ahead
C14_Witness ==
  /\ Len(calls) > 1
  /\ calls[Len(calls) - 1].op = "preparePageForScreenshot"
  /\ ~calls[Len(calls) - 1].ok
  /\ markerIndex + 1 < Len(markers)
  /\ capturer.afterCapture

(* ------------------------------ C15 ------------------------------------ *)
\* the calls of the marker loop so far
LoopCalls == SelectSeq(calls, LAMBDA e : e.line \in {257, 263, 270, 279, 286})

Call(line, time, frame) == [line |-> line, time |-> time, frame |-> frame]

\* the calls the claim prescribes for one marker, in order
StatedCalls(m) ==
  IF m.type = "Only Animate"
    THEN << Call(286, m.time, 0) >>
    ELSE << Call(257, m.time, m.frameCount) >>
         \o (IF cfg.captureWhileSelectorExists
               THEN << Call(263, Zero, m.frameCount) >> ELSE << >>)
         \o (IF cfg.preparePageForScreenshot
               THEN << Call(270, Zero, m.frameCount) >> ELSE << >>)
         \o (IF capturer.capture
               THEN << Call(279, Zero, m.frameCount) >> ELSE << >>)

RECURSIVE StatedCallsFrom(_)
StatedCallsFrom(k) ==
  IF k > Len(markers) THEN << >>
  ELSE StatedCalls(markers[k]) \o StatedCallsFrom(k + 1)

\* C15: the calls of the marker loop are, marker after marker, one
\* goToTimeAndAnimate for an 'Only Animate' marker, and for a Capture marker
\* goToTimeAndAnimateForCapture, the selector check if configured,
\* preparePageForScreenshot if provided and capturer.capture if present, in
\* this order and with the marker's frame index; the sequence is cut short
\* only by a break or a rejection, and capture is never called for an
\* 'Only Animate' marker.
C15_PerMarkerProtocol ==
  LET stated == StatedCallsFrom(1)
  IN  /\ Len(LoopCalls) <= Len(stated)
      /\ \A k \in DOMAIN LoopCalls :
           /\ Call(LoopCalls[k].line, LoopCalls[k].time, LoopCalls[k].frame) = stated[k]
           /\ k < Len(LoopCalls) =>
                LoopCalls[k].ok /\ ~IsBreak(LoopCalls[k])
      /\ (pc = "done" /\ ~BrokeOut) => Len(LoopCalls) = Len(stated)
      /\ \A k \in DOMAIN calls :
           /\ calls[k].op = "capture" => calls[k].frame >= 1
           /\ (calls[k].line = 286 /\ k < Len(calls)) =>
                calls[k + 1].op \notin {"$", "preparePageForScreenshot", "capture"}

\* a finished run through all markers, with selector check, hook, capture and
\* an 'Only Animate' marker
C15_Witness ==
  /\ pc = "done" /\ ~BrokeOut
  /\ cfg.captureWhileSelectorExists /\ cfg.preparePageForScreenshot /\ capturer.capture
  /\ \E k \in DOMAIN markers : markers[k].type = "Only Animate"
  /\ Len(LoopCalls) = Len(StatedCallsFrom(1))

(* ------------------------------ C16 ------------------------------------ *)
CallsOf(op) == { k \in DOMAIN calls : calls[k].op = op }

\* C16: in a run that does not fail, beforeCapture (if present) is called
\* once, after preparePage and the startDelay wait and before any query,
\* advance or capture; afterCapture (if present) is called once, after the
\* last call of the marker loop and before browser.close; browser.close is
\* called once and last.
C16_StrategyLifecycle ==
  pc = "done" =>
    /\ Cardinality(CallsOf("beforeCapture")) = IF capturer.beforeCapture THEN 1 ELSE 0
    /\ Cardinality(CallsOf("afterCapture")) = IF capturer.afterCapture THEN 1 ELSE 0
    /\ CallsOf("close") = { Len(calls) }
    /\ \A b \in CallsOf("beforeCapture") :
         /\ calls[b - 1].op = "setTimeout"
         /\ \A k \in DOMAIN calls :
              /\ calls[k].op \in {"preparePage", "setTimeout"} => k < b
              /\ (IsAdvance(calls[k]) \/ calls[k].op \in {"$", "capture"}) => b < k
    /\ \A a \in CallsOf("afterCapture") :
         /\ a = Len(calls) - 1
         /\ \A k \in DOMAIN calls : calls[k].line \in {257, 263, 270, 279, 286} => k < a

\* a finished run with beforeCapture and afterCapture, priming and an early exit
C16_Witness ==
  /\ pc = "done"
  /\ capturer.beforeCapture /\ capturer.afterCapture
  /\ cfg.preparePage
  /\ primingSteps > 0
  /\ BrokeOut

(* ------------------------------ C17 ------------------------------------ *)
\* the first capture time, delay + frameNumToTime(1, N), exceeds 100 ms
FirstGapRuleApplies ==
  /\ FramesN >= 1
  /\ RLess(OfInt(100),
           RAdd(RMul(OfInt(1000), cfg.start), FrameNumToTime(cfg, 1, ResolvedFrames(cfg))))

\* the markers the first-gap rule added: it runs right after the N Capture
\* markers were created, so its marker has id N
EarlyTicks ==
  { k \in DOMAIN markers :
      /\ markers[k].type = "Only Animate"
      /\ markers[k].time = OfInt(20)
      /\ markers[k].id = FramesN }

OnlyAnimateIndices == { k \in DOMAIN markers : markers[k].type = "Only Animate" }

\* the timeline holds the 20 ms marker exactly when the first capture time
\* exceeds 100 ms, and never more than one
EarlyTickIffFirstGap ==
  Built =>
    /\ Cardinality(EarlyTicks) = IF FirstGapRuleApplies THEN 1 ELSE 0
    /\ Cardinality({ k \in OnlyAnimateIndices : markers[k].time = OfInt(20) }) <= 1
    /\ cfg.maximumAnimationFrameDuration = 0 => OnlyAnimateIndices = EarlyTicks

\* C17 as stated: the 20 ms marker is there if and only if the first capture
\* time exceeds 100 ms, at most once, and it is executed before every Capture
\* marker.
C17_EarlyTickBeforeEveryCapture ==
  /\ EarlyTickIffFirstGap
  /\ \A e \in EarlyTicks : \A k \in CaptureMarkerIndices : e < k
  /\ \A k \in DOMAIN calls :
       (calls[k].line = 257 /\ FirstGapRuleApplies) =>
         \E j \in 1..(k - 1) : calls[j].line = 286 /\ calls[j].time = OfInt(20)

\* C17 amended: the 20 ms marker is there if and only if the first capture
\* time exceeds 100 ms, at most once, and it is executed before every Capture
\* marker whose time is greater than 20 ms.
C17_EarlyTickBeforeLaterCaptures ==
  /\ EarlyTickIffFirstGap
  /\ \A e \in EarlyTicks : \A k \in CaptureMarkerIndices :
       RLess(OfInt(20), markers[k].time) => e < k
  /\ \A k \in DOMAIN calls :
       (calls[k].line = 257 /\ FirstGapRuleApplies /\ RLess(OfInt(20), calls[k].time)) =>
         \E j \in 1..(k - 1) : calls[j].line = 286 /\ calls[j].time = OfInt(20)

\* a finished run whose timeline has the early tick, after a Capture marker at
\* a time below 20 ms and before the other Capture markers
C17_Witness ==
  /\ pc = "done" /\ ~BrokeOut
  /\ \E e \in EarlyTicks : \E a, b \in CaptureMarkerIndices : a < e /\ e < b

(* ------------------------------ C18 ------------------------------------ *)
\* the position in calls of the last advance issued before position k (0: none)
LastAdvanceBefore(k) ==
  LET before == { j \in 1..(k - 1) : IsAdvance(calls[j]) }
  IN  IF before = {} THEN 0 ELSE CHOOSE j \in before : \A i \in before : i <= j

\* C18: when preparePageForScreenshot or capturer.capture is called for frame
\* i, the most recent advance is a resolved goToTimeAndAnimateForCapture to
\* the time of the Capture marker of frame i.
C18_CaptureAtCommandedTime ==
  \A k \in DOMAIN calls :
    calls[k].op \in {"capture", "preparePageForScreenshot"} =>
      LET j == LastAdvanceBefore(k)
      IN  /\ j > 0
          /\ calls[j].op = "goToTimeAndAnimateForCapture" /\ calls[j].ok
          /\ \E m \in CaptureMarkerIndices :
               /\ markers[m].frameCount = calls[k].frame
               /\ markers[m].time = calls[j].time
               /\ \A n \in CaptureMarkerIndices :
                    markers[n].frameCount = calls[k].frame => n = m

\* a capture that follows priming and 'Only Animate' advances
C18_Witness ==
  /\ pc = "done"
  /\ primingSteps > 0
  /\ Len(CaptureCalls) >= 2
  /\ \E k \in DOMAIN calls : calls[k].line = 286
  /\ cfg.preparePageForScreenshot

(* ------------------------------ C19 ------------------------------------ *)
\* frameNumToTime is strictly increasing over the frames of the run
StrictlyIncreasingFrameTimes ==
  \A i, j \in 1..FramesN :
    i < j => RLess(FrameNumToTime(cfg, i, ResolvedFrames(cfg)),
                   FrameNumToTime(cfg, j, ResolvedFrames(cfg)))

\* C19: with strictly increasing frame times (the default mapping is), the
\* frame indices passed to capturer.capture are 1, 2, ..., k for some k <= N.
C19_CapturesSequential ==
  /\ cfg.frameNumToTime = "default" => StrictlyIncreasingFrameTimes
  /\ StrictlyIncreasingFrameTimes =>
       /\ Len(CapturedFrames) <= FramesN
       /\ CapturedFrames = [ i \in 1..Len(CapturedFrames) |-> i ]

\* a finished run that captured every frame, with 'Only Animate' markers and
\* priming in between
C19_Witness ==
  /\ pc = "done"
  /\ StrictlyIncreasingFrameTimes
  /\ FramesN >= 3
  /\ Len(CapturedFrames) = FramesN
  /\ primingSteps > 0
  /\ cfg.maximumAnimationFrameDuration # 0

(* ------------------------------ C20 ------------------------------------ *)
\* the positions of the function in program order (lines 124-297)
PcOrder ==
  << "getBrowser", "newPage", "setViewport", "overwriteRandom", "overwriteTime",
     "initializePageUtils", "initializeMediaTimeHandler", "goto", "preparePage",
     "startWait", "beforeCapture", "primeIf", "primeWhile", "primeAdvance",
     "build", "marker", "check", "preparePageForScreenshot", "capture",
     "afterLoop", "afterCapture", "close", "done", "failed" >>

Position(p) == CHOOSE k \in DOMAIN PcOrder : PcOrder[k] = p

\* how far the run has come: priming iterations, markers executed, position
Progress == << primingSteps, markerIndex, Position(pc) >>

ProgressBefore(a, b) ==
  \/ a[1] < b[1]
  \/ a[1] = b[1] /\ a[2] < b[2]
  \/ a[1] = b[1] /\ a[2] = b[2] /\ a[3] < b[3]

\* the run ended with the timeline drained (or left by the break) and the
\* browser closed, or with the error logged
EndedProperly ==
  \/ /\ pc = "done" /\ browser = "closed"
     /\ BrokeOut \/ Len(RunningAdvances) = Len(markers)
  \/ /\ pc = "failed" /\ calls[Len(calls)] = LogError

\* C20: when every awaited operation completes and the selector is found after
\* finitely many (here at most MaxPriming) priming queries, every run reaches a
\* terminal state: every step moves the run forward in a bounded order (priming
\* iterations, then markers executed, then position in the function), and a run
\* that is not in a terminal state can take a step (the synchronous timeline
\* construction at "build" awaits nothing).  A terminal state is drained and
\* closed or has the error logged; the marker loop issues at most one advance
\* per marker, priming exactly one advance per iteration.
C20_Terminates ==
  /\ [][ProgressBefore(Progress, Progress')]_vars
  /\ [] (primingSteps <= MaxPriming /\ markerIndex <= Len(markers))
  /\ [] (Terminal \/ pc = "build" \/ ENABLED <<Next>>_vars)
  /\ [] (Terminal => EndedProperly)
  /\ [] (Len(RunningAdvances) <= Len(markers))
  /\ [] (Len(PrimingAdvances) = primingSteps)

\* a finished run after the longest priming and a fully executed timeline
C20_Witness ==
  /\ pc = "done"
  /\ primingSteps = MaxPriming
  /\ Len(RunningAdvances) = Len(markers)
  /\ Len(markers) > FramesN
====
